---- MODULE Spec2Model ----
(***************************************************************************)
(* The task-lifecycle service of rhewin/your-profit: the pure decision     *)
(* functions of src/domain/task.ts, the three SQLite tables of             *)
(* src/db/schema.ts, the transactional repository and the Express          *)
(* controller whose handlers run as async functions on one event loop.     *)
(*                                                                         *)
(* A handler runs without interruption from one `await` to the next; other *)
(* handlers may run at every `await`.  db.transaction(...) of              *)
(* better-sqlite3 is synchronous, so a repository transaction is a single  *)
(* step, while TaskRepository.findById awaits twice (task row, then event  *)
(* rows) before the controller continues.  A request field is drawn at the *)
(* step that first reads it: the client fixed it when it sent the request, *)
(* and the server learns nothing of it earlier.                            *)
(***************************************************************************)
EXTENDS Integers, Sequences, FiniteSets, TLC

\* ------------------------------------------------------------------ bounds
MaxTasks == 1
MaxEvents == 4
MaxHandlers == 2
MaxListed == 3
MaxTime == 2

\* ------------------------------------------------- domains of the inputs
Tenants == {"tenant_1"}
Workspaces == {"ws_1"}
Users == {"user_1", "user_2"}
Keys == {"key_1"}
TaskIds == 1..MaxTasks
Handlers == 1..MaxHandlers
Versions == 1..MaxEvents

\* JavaScript null / undefined and an absent (or empty, hence falsy) header
Null == "null"
Undefined == "undefined"
NoKey == ""

TaskState == {"NEW", "IN_PROGRESS", "DONE", "CANCELLED"}
UserRole == {"agent", "manager"}
transitionTaskSchema == {"IN_PROGRESS", "DONE", "CANCELLED"}
TimelineLimit == 20

VARIABLES tasks, taskEvents, idempotencyKeys, handlers, dec

vars == <<tasks, taskEvents, idempotencyKeys, handlers, dec>>

\* ------------------------------------------------------- domain/task.ts
\* An edge table that lets no state be final
allowedWithoutTerminal(s) ==
  CASE s = "NEW" -> {"IN_PROGRESS", "CANCELLED"}
    [] s = "IN_PROGRESS" -> {"DONE", "CANCELLED"}
    [] s = "DONE" -> {"CANCELLED"}
    [] s = "CANCELLED" -> {}

allowed(s) ==
  CASE s = "NEW" -> {"IN_PROGRESS", "CANCELLED"}
    [] s = "IN_PROGRESS" -> {"DONE", "CANCELLED"}
    [] s = "DONE" -> {}
    [] s = "CANCELLED" -> {}

\* validateTransition that lets nobody but a manager act
validateTransitionManagerOnly(currentState, toState, role, assigneeId, currentUserId) ==
  IF toState \notin allowed(currentState) THEN FALSE
  ELSE IF role = "manager" THEN toState = "CANCELLED"
  ELSE FALSE

validateTransition(currentState, toState, role, assigneeId, currentUserId) ==
  IF toState \notin allowed(currentState) THEN FALSE
  ELSE IF role = "manager" THEN toState = "CANCELLED"
  ELSE IF role = "agent" THEN
         IF assigneeId # currentUserId THEN FALSE
         ELSE IF currentState = "NEW" /\ toState = "IN_PROGRESS" THEN TRUE
         ELSE IF currentState = "IN_PROGRESS" /\ toState = "DONE" THEN TRUE
         ELSE FALSE
  ELSE FALSE

\* canAssign that does not look at the state
canAssignAnyState(state, role) ==
  IF role # "manager" THEN FALSE
  ELSE TRUE

canAssign(state, role) ==
  IF role # "manager" THEN FALSE
  ELSE state = "NEW" \/ state = "IN_PROGRESS"

\* ------------------------------------------------------------ the store
\* The three tables as one value, so that a transaction body is a function
\* from a database to a database.
Db == [tasks |-> tasks, taskEvents |-> taskEvents,
       idempotencyKeys |-> idempotencyKeys]

TheRow(rows) == CHOOSE r \in rows : TRUE

NoValue == [task_id |-> 0, state |-> "", version |-> 0]

\* What a transaction body did: the database as its statements left it, the
\* message of the Error it threw ("" when it returned), the value returned.
Ran(db, error, value) == [db |-> db, error |-> error, value |-> value]

\* A statement of a transaction that the database may refuse (SQLITE_FULL,
\* I/O error, constraint): it then throws instead of writing.
Faults == {"none", "tasks", "taskEvents", "idempotencyKeys"}

\* The message of the error a refused statement on a table throws
SqliteError(table) ==
  CASE table = "tasks" -> "SqliteError: tasks"
    [] table = "taskEvents" -> "SqliteError: task_events"
    [] table = "idempotencyKeys" -> "SqliteError: idempotency_keys"

\* db.transaction(fn) that keeps what fn wrote before it threw
TransactionWithoutRollback(db, ran) == ran

\* db.transaction(fn): commit what fn did when it returns, roll back to the
\* database as it was when fn throws.
Transaction(db, ran) ==
  IF ran.error # "" THEN Ran(db, ran.error, NoValue) ELSE ran

uuidv4Event(db) == Len(db.taskEvents) + 1

\* An outbox insert that writes nothing
insertEventForgotten(db, taskId, eventType, payload) == db

\* An outbox insert that keeps only the newest event of a task
insertEventReplacing(db, taskId, eventType, payload) ==
  [db EXCEPT !.taskEvents =
     Append(SelectSeq(@, LAMBDA e : e.taskId # taskId),
            [id |-> uuidv4Event(db), taskId |-> taskId,
             eventType |-> eventType, payload |-> payload])]

insertEvent(db, taskId, eventType, payload) ==
  [db EXCEPT !.taskEvents =
     Append(@, [id |-> uuidv4Event(db), taskId |-> taskId,
                eventType |-> eventType, payload |-> payload])]

\* createBody without the lookup of the idempotency key
createBodyBlind(db, task, idempotencyKey, fault) ==
  LET existing == {k \in db.idempotencyKeys : k.key = idempotencyKey}
      newTask == [id |-> task.id, tenantId |-> task.tenantId,
                  workspaceId |-> task.workspaceId, state |-> task.state,
                  assigneeId |-> task.assigneeId, version |-> 1]
      db1 == [db EXCEPT !.tasks = @ \cup {newTask}]
      db2 == insertEvent(db1, task.id, "TaskCreated", newTask)
      result == [task_id |-> task.id, state |-> task.state, version |-> 1]
      db3 == [db2 EXCEPT !.idempotencyKeys =
                @ \cup {[key |-> idempotencyKey, responsePayload |-> result]}]
  IN  IF fault = "tasks" \/ \E r \in db.tasks : r.id = task.id
        THEN Ran(db, SqliteError("tasks"), NoValue)
      ELSE IF fault = "taskEvents"
        THEN Ran(db1, SqliteError("taskEvents"), NoValue)
      ELSE IF idempotencyKey # NoKey
        THEN IF fault = "idempotencyKeys" \/ existing # {}
               THEN Ran(db2, SqliteError("idempotencyKeys"), NoValue)
               ELSE Ran(db3, "", result)
      ELSE Ran(db2, "", result)

\* createBody that does not save the idempotency key
createBodyUncached(db, task, idempotencyKey, fault) ==
  LET existing == {k \in db.idempotencyKeys : k.key = idempotencyKey}
      newTask == [id |-> task.id, tenantId |-> task.tenantId,
                  workspaceId |-> task.workspaceId, state |-> task.state,
                  assigneeId |-> task.assigneeId, version |-> 1]
      db1 == [db EXCEPT !.tasks = @ \cup {newTask}]
      db2 == insertEvent(db1, task.id, "TaskCreated", newTask)
      result == [task_id |-> task.id, state |-> task.state, version |-> 1]
  IN  IF idempotencyKey # NoKey /\ existing # {}
        THEN Ran(db, "", TheRow(existing).responsePayload)
      ELSE IF fault = "tasks" \/ \E r \in db.tasks : r.id = task.id
        THEN Ran(db, SqliteError("tasks"), NoValue)
      ELSE IF fault = "taskEvents"
        THEN Ran(db1, SqliteError("taskEvents"), NoValue)
      ELSE Ran(db2, "", result)

\* createBody that refreshes the cached response from the task row
createBodyRecaching(db, task, idempotencyKey, fault) ==
  LET existing == {k \in db.idempotencyKeys : k.key = idempotencyKey}
      cached == TheRow(existing).responsePayload
      row == TheRow({r \in db.tasks : r.id = cached.task_id})
      fresh == [task_id |-> row.id, state |-> row.state,
                version |-> row.version]
      newTask == [id |-> task.id, tenantId |-> task.tenantId,
                  workspaceId |-> task.workspaceId, state |-> task.state,
                  assigneeId |-> task.assigneeId, version |-> 1]
      db1 == [db EXCEPT !.tasks = @ \cup {newTask}]
      db2 == insertEvent(db1, task.id, "TaskCreated", newTask)
      result == [task_id |-> task.id, state |-> task.state, version |-> 1]
      db3 == [db2 EXCEPT !.idempotencyKeys =
                @ \cup {[key |-> idempotencyKey, responsePayload |-> result]}]
  IN  IF idempotencyKey # NoKey /\ existing # {}
        THEN Ran([db EXCEPT !.idempotencyKeys =
                    (@ \ existing) \cup
                      {[key |-> idempotencyKey, responsePayload |-> fresh]}],
                 "", fresh)
      ELSE IF fault = "tasks" \/ \E r \in db.tasks : r.id = task.id
        THEN Ran(db, SqliteError("tasks"), NoValue)
      ELSE IF fault = "taskEvents"
        THEN Ran(db1, SqliteError("taskEvents"), NoValue)
      ELSE IF idempotencyKey # NoKey
        THEN IF fault = "idempotencyKeys"
               THEN Ran(db2, SqliteError("idempotencyKeys"), NoValue)
               ELSE Ran(db3, "", result)
      ELSE Ran(db2, "", result)

\* TaskRepository.create, the body of its transaction
createBody(db, task, idempotencyKey, fault) ==
  LET existing == {k \in db.idempotencyKeys : k.key = idempotencyKey}
      newTask == [id |-> task.id, tenantId |-> task.tenantId,
                  workspaceId |-> task.workspaceId, state |-> task.state,
                  assigneeId |-> task.assigneeId, version |-> 1]
      db1 == [db EXCEPT !.tasks = @ \cup {newTask}]
      db2 == insertEvent(db1, task.id, "TaskCreated", newTask)
      result == [task_id |-> task.id, state |-> task.state, version |-> 1]
      db3 == [db2 EXCEPT !.idempotencyKeys =
                @ \cup {[key |-> idempotencyKey, responsePayload |-> result]}]
  IN  IF idempotencyKey # NoKey /\ existing # {}
        THEN Ran(db, "", TheRow(existing).responsePayload)
      ELSE IF fault = "tasks" \/ \E r \in db.tasks : r.id = task.id
        THEN Ran(db, SqliteError("tasks"), NoValue)
      ELSE IF fault = "taskEvents"
        THEN Ran(db1, SqliteError("taskEvents"), NoValue)
      ELSE IF idempotencyKey # NoKey
        THEN IF fault = "idempotencyKeys" \/ existing # {}
               THEN Ran(db2, SqliteError("idempotencyKeys"), NoValue)
               ELSE Ran(db3, "", result)
      ELSE Ran(db2, "", result)

create(db, task, idempotencyKey, fault) ==
  Transaction(db, createBody(db, task, idempotencyKey, fault))

\* assignBody without the comparison of the stored version with
\* currentVersion
assignBodyUnversioned(db, taskId, assigneeId, currentVersion, fault) ==
  LET found == {r \in db.tasks : r.id = taskId}
      task == TheRow(found)
      nextVersion == currentVersion + 1
      db1 == [db EXCEPT !.tasks =
                {IF r.id = taskId /\ r.version = currentVersion
                   THEN [r EXCEPT !.assigneeId = assigneeId,
                                  !.version = nextVersion]
                   ELSE r : r \in @}]
      db2 == insertEvent(db1, taskId, "TaskAssigned",
                         [assigneeId |-> assigneeId])
  IN  IF found = {} THEN Ran(db, "TaskNotFound", NoValue)
      ELSE IF task.state = "DONE" \/ task.state = "CANCELLED"
        THEN Ran(db, "InvalidState", NoValue)
      ELSE IF fault = "tasks" THEN Ran(db, SqliteError("tasks"), NoValue)
      ELSE IF fault = "taskEvents" THEN Ran(db1, SqliteError("taskEvents"), NoValue)
      ELSE Ran(db2, "", [task_id |-> taskId, state |-> task.state,
                         version |-> nextVersion])

\* assignBody that expects the version the task will have next
assignBodyExpectingNext(db, taskId, assigneeId, currentVersion, fault) ==
  LET found == {r \in db.tasks : r.id = taskId}
      task == TheRow(found)
      nextVersion == currentVersion
      db1 == [db EXCEPT !.tasks =
                {IF r.id = taskId /\ r.version + 1 = currentVersion
                   THEN [r EXCEPT !.assigneeId = assigneeId,
                                  !.version = nextVersion]
                   ELSE r : r \in @}]
      db2 == insertEvent(db1, taskId, "TaskAssigned",
                         [assigneeId |-> assigneeId])
  IN  IF found = {} THEN Ran(db, "TaskNotFound", NoValue)
      ELSE IF task.version + 1 # currentVersion
        THEN Ran(db, "VersionMismatch", NoValue)
      ELSE IF task.state = "DONE" \/ task.state = "CANCELLED"
        THEN Ran(db, "InvalidState", NoValue)
      ELSE IF fault = "tasks" THEN Ran(db, SqliteError("tasks"), NoValue)
      ELSE IF fault = "taskEvents" THEN Ran(db1, SqliteError("taskEvents"), NoValue)
      ELSE Ran(db2, "", [task_id |-> taskId, state |-> task.state,
                         version |-> nextVersion])

\* assignBody whose update also puts the task back to NEW
assignBodyResetting(db, taskId, assigneeId, currentVersion, fault) ==
  LET found == {r \in db.tasks : r.id = taskId}
      task == TheRow(found)
      nextVersion == currentVersion + 1
      db1 == [db EXCEPT !.tasks =
                {IF r.id = taskId /\ r.version = currentVersion
                   THEN [r EXCEPT !.assigneeId = assigneeId,
                                  !.state = "NEW",
                                  !.version = nextVersion]
                   ELSE r : r \in @}]
      db2 == insertEvent(db1, taskId, "TaskAssigned",
                         [assigneeId |-> assigneeId])
  IN  IF found = {} THEN Ran(db, "TaskNotFound", NoValue)
      ELSE IF task.version # currentVersion
        THEN Ran(db, "VersionMismatch", NoValue)
      ELSE IF task.state = "DONE" \/ task.state = "CANCELLED"
        THEN Ran(db, "InvalidState", NoValue)
      ELSE IF fault = "tasks" THEN Ran(db, SqliteError("tasks"), NoValue)
      ELSE IF fault = "taskEvents" THEN Ran(db1, SqliteError("taskEvents"), NoValue)
      ELSE Ran(db2, "", [task_id |-> taskId, state |-> task.state,
                         version |-> nextVersion])

\* TaskRepository.assign, the body of its transaction
assignBody(db, taskId, assigneeId, currentVersion, fault) ==
  LET found == {r \in db.tasks : r.id = taskId}
      task == TheRow(found)
      nextVersion == currentVersion + 1
      db1 == [db EXCEPT !.tasks =
                {IF r.id = taskId /\ r.version = currentVersion
                   THEN [r EXCEPT !.assigneeId = assigneeId,
                                  !.version = nextVersion]
                   ELSE r : r \in @}]
      db2 == insertEvent(db1, taskId, "TaskAssigned",
                         [assigneeId |-> assigneeId])
  IN  IF found = {} THEN Ran(db, "TaskNotFound", NoValue)
      ELSE IF task.version # currentVersion
        THEN Ran(db, "VersionMismatch", NoValue)
      ELSE IF task.state = "DONE" \/ task.state = "CANCELLED"
        THEN Ran(db, "InvalidState", NoValue)
      ELSE IF fault = "tasks" THEN Ran(db, SqliteError("tasks"), NoValue)
      ELSE IF fault = "taskEvents" THEN Ran(db1, SqliteError("taskEvents"), NoValue)
      ELSE Ran(db2, "", [task_id |-> taskId, state |-> task.state,
                         version |-> nextVersion])

assign(db, taskId, assigneeId, currentVersion, fault) ==
  Transaction(db, assignBody(db, taskId, assigneeId, currentVersion, fault))

\* transitionBody that adds two to the version
transitionBodySkipping(db, taskId, toState, currentVersion, fault) ==
  LET found == {r \in db.tasks : r.id = taskId}
      task == TheRow(found)
      nextVersion == currentVersion + 2
      db1 == [db EXCEPT !.tasks =
                {IF r.id = taskId /\ r.version = currentVersion
                   THEN [r EXCEPT !.state = toState, !.version = nextVersion]
                   ELSE r : r \in @}]
      db2 == insertEvent(db1, taskId, "TaskStateChanged",
                         [from |-> task.state, to |-> toState])
  IN  IF found = {} THEN Ran(db, "TaskNotFound", NoValue)
      ELSE IF task.version # currentVersion
        THEN Ran(db, "VersionMismatch", NoValue)
      ELSE IF fault = "tasks" THEN Ran(db, SqliteError("tasks"), NoValue)
      ELSE IF fault = "taskEvents"
        THEN Ran(db1, SqliteError("taskEvents"), NoValue)
      ELSE Ran(db2, "", [task_id |-> taskId, state |-> toState,
                         version |-> nextVersion])

\* transitionBody that does not compare the version
transitionBodyUnversioned(db, taskId, toState, currentVersion, fault) ==
  LET found == {r \in db.tasks : r.id = taskId}
      task == TheRow(found)
      nextVersion == task.version + 1
      db1 == [db EXCEPT !.tasks =
                {IF r.id = taskId
                   THEN [r EXCEPT !.state = toState, !.version = nextVersion]
                   ELSE r : r \in @}]
      db2 == insertEvent(db1, taskId, "TaskStateChanged",
                         [from |-> task.state, to |-> toState])
  IN  IF found = {} THEN Ran(db, "TaskNotFound", NoValue)
      ELSE IF fault = "tasks" THEN Ran(db, SqliteError("tasks"), NoValue)
      ELSE IF fault = "taskEvents"
        THEN Ran(db1, SqliteError("taskEvents"), NoValue)
      ELSE Ran(db2, "", [task_id |-> taskId, state |-> toState,
                         version |-> nextVersion])

\* transitionBody whose event says the task came from NEW
transitionBodyFromNew(db, taskId, toState, currentVersion, fault) ==
  LET found == {r \in db.tasks : r.id = taskId}
      task == TheRow(found)
      nextVersion == currentVersion + 1
      db1 == [db EXCEPT !.tasks =
                {IF r.id = taskId /\ r.version = currentVersion
                   THEN [r EXCEPT !.state = toState, !.version = nextVersion]
                   ELSE r : r \in @}]
      db2 == insertEvent(db1, taskId, "TaskStateChanged",
                         [from |-> "NEW", to |-> toState])
  IN  IF found = {} THEN Ran(db, "TaskNotFound", NoValue)
      ELSE IF task.version # currentVersion
        THEN Ran(db, "VersionMismatch", NoValue)
      ELSE IF fault = "tasks" THEN Ran(db, SqliteError("tasks"), NoValue)
      ELSE IF fault = "taskEvents" THEN Ran(db1, SqliteError("taskEvents"), NoValue)
      ELSE Ran(db2, "", [task_id |-> taskId, state |-> toState,
                         version |-> nextVersion])

\* TaskRepository.transition, the body of its transaction
transitionBody(db, taskId, toState, currentVersion, fault) ==
  LET found == {r \in db.tasks : r.id = taskId}
      task == TheRow(found)
      nextVersion == currentVersion + 1
      db1 == [db EXCEPT !.tasks =
                {IF r.id = taskId /\ r.version = currentVersion
                   THEN [r EXCEPT !.state = toState, !.version = nextVersion]
                   ELSE r : r \in @}]
      db2 == insertEvent(db1, taskId, "TaskStateChanged",
                         [from |-> task.state, to |-> toState])
  IN  IF found = {} THEN Ran(db, "TaskNotFound", NoValue)
      ELSE IF task.version # currentVersion
        THEN Ran(db, "VersionMismatch", NoValue)
      ELSE IF fault = "tasks" THEN Ran(db, SqliteError("tasks"), NoValue)
      ELSE IF fault = "taskEvents" THEN Ran(db1, SqliteError("taskEvents"), NoValue)
      ELSE Ran(db2, "", [task_id |-> taskId, state |-> toState,
                         version |-> nextVersion])

transition(db, taskId, toState, currentVersion, fault) ==
  Transaction(db, transitionBody(db, taskId, toState, currentVersion, fault))

\* A task query by id alone
findTaskOfAnyTenant(db, taskId, tenantId) ==
  {r \in db.tasks : r.id = taskId}

\* TaskRepository.findById, first query: the task row by (id, tenant)
findTask(db, taskId, tenantId) ==
  {r \in db.tasks : r.id = taskId /\ r.tenantId = tenantId}

\* The last n elements of a sequence, newest first
RECURSIVE NewestFirst(_, _)
NewestFirst(s, n) ==
  IF n = 0 \/ s = <<>> THEN <<>>
  ELSE <<s[Len(s)]>> \o NewestFirst(SubSeq(s, 1, Len(s) - 1), n - 1)

\* TaskRepository.findById, second query: the 20 newest events of the task
findTimeline(db, taskId) ==
  NewestFirst(SelectSeq(db.taskEvents, LAMBDA e : e.taskId = taskId),
              TimelineLimit)

\* ------------------------------------------------------ request handlers
\* One slot per request being handled: where the handler stands, what
\* findById gave it, its response, and the fields of the request once it has
\* reached the repository (x-user-id only where validateTransition reads it,
\* in the agent branch).  A request the controller turns away before the
\* repository leaves only its response.
Idle ==
  [pc |-> "idle", op |-> "", taskId |-> 0, tenantId |-> "",
   workspaceId |-> "", role |-> "", userId |-> "", toState |-> "",
   assigneeId |-> "", version |-> 0, key |-> NoKey, task |-> {},
   timeline |-> <<>>, query |-> <<>>, status |-> 0, error |-> "",
   body |-> NoValue]

\* The store holds at most MaxTasks tasks and MaxEvents events
WithinBounds(db) ==
  /\ Cardinality(db.tasks) <= MaxTasks
  /\ Len(db.taskEvents) <= MaxEvents

\* uuidv4() of TaskController.create: an id no task row has
uuidv4Task(db) ==
  LET used == {r.id : r \in db.tasks}
  IN  IF TaskIds \subseteq used THEN MaxTasks + 1
      ELSE CHOOSE i \in TaskIds \ used : \A j \in TaskIds \ used : i <= j

Write(db) ==
  /\ tasks' = db.tasks
  /\ taskEvents' = db.taskEvents
  /\ idempotencyKeys' = db.idempotencyKeys

Reply(h, slot, status, error, body) ==
  handlers' = [handlers EXCEPT ![h] =
     [slot EXCEPT !.pc = "respond", !.status = status, !.error = error,
                  !.body = body]]

\* TaskController.create: the whole handler up to its response; the
\* repository transaction runs before the first await.
Create(h) ==
  /\ handlers[h].pc = "idle"
  /\ \E tenantId \in Tenants, workspaceId \in Workspaces,
        idempotencyKey \in Keys \cup {NoKey}, fault \in Faults :
       LET id == uuidv4Task(Db)
           ran == create(Db, [id |-> id, tenantId |-> tenantId,
                              workspaceId |-> workspaceId, state |-> "NEW",
                              assigneeId |-> Null], idempotencyKey, fault)
           slot == [Idle EXCEPT !.op = "create", !.taskId = id,
                                !.tenantId = tenantId,
                                !.workspaceId = workspaceId,
                                !.key = idempotencyKey]
       IN  /\ WithinBounds(ran.db)
           /\ Write(ran.db)
           /\ IF ran.error = "" THEN Reply(h, slot, 201, "", ran.value)
              ELSE Reply(h, slot, 500, ran.error, NoValue)
  /\ UNCHANGED dec

\* TaskController.assign up to the first await: the role check, then the
\* first query of findById.
AssignStart(h) ==
  /\ handlers[h].pc = "idle"
  /\ \E role \in UserRole, tenantId \in Tenants, taskId \in TaskIds :
       LET slot == [Idle EXCEPT !.op = "assign", !.role = role,
                                !.tenantId = tenantId, !.taskId = taskId]
       IN  IF role # "manager"
             THEN Reply(h, slot, 403, "Only manager can assign tasks", NoValue)
             ELSE handlers' = [handlers EXCEPT ![h] =
                    [slot EXCEPT !.pc = "findById",
                                 !.task = findTask(Db, taskId, tenantId)]]
  /\ UNCHANGED <<tasks, taskEvents, idempotencyKeys, dec>>

\* TaskController.transition up to the first await
TransitionStart(h) ==
  /\ handlers[h].pc = "idle"
  /\ \E tenantId \in Tenants, taskId \in TaskIds :
       handlers' = [handlers EXCEPT ![h] =
         [Idle EXCEPT !.op = "transition", !.tenantId = tenantId,
                      !.taskId = taskId, !.pc = "findById",
                      !.task = findTask(Db, taskId, tenantId)]]
  /\ UNCHANGED <<tasks, taskEvents, idempotencyKeys, dec>>

\* TaskRepository.findById from its first await to its second: null for no
\* row, else the query of the task's events. assign and transition read
\* nothing of the timeline it returns, so only a get keeps it.
FindById(h) ==
  /\ handlers[h].pc = "findById"
  /\ handlers' = [handlers EXCEPT ![h] =
       [@ EXCEPT !.pc = "found",
                 !.timeline = IF handlers[h].op = "get" /\ handlers[h].task # {}
                                THEN findTimeline(Db, handlers[h].taskId)
                                ELSE <<>>]]
  /\ UNCHANGED <<tasks, taskEvents, idempotencyKeys, dec>>

\* The status TaskController.assign gives an Error of the repository
assignStatus(error) ==
  IF error = "TaskNotFound" THEN 404
  ELSE IF error = "VersionMismatch" THEN 409
  ELSE IF error = "InvalidState" THEN 409
  ELSE 500

\* TaskController.assign after findById: the existence and workspace checks
\* and the repository transaction.
AssignFound(h) ==
  /\ handlers[h].pc = "found"
  /\ handlers[h].op = "assign"
  /\ IF handlers[h].task = {}
       THEN /\ Reply(h, handlers[h], 404, "Task not found", NoValue)
            /\ UNCHANGED <<tasks, taskEvents, idempotencyKeys>>
       ELSE \E workspaceId \in Workspaces :
         LET slot == [handlers[h] EXCEPT !.workspaceId = workspaceId]
         IN  IF TheRow(slot.task).workspaceId # workspaceId
               THEN /\ Reply(h, slot, 404, "Task not found in this workspace",
                             NoValue)
                    /\ UNCHANGED <<tasks, taskEvents, idempotencyKeys>>
               ELSE \E assignee_id \in Users, ifMatchVersion \in Versions,
                       fault \in Faults \ {"idempotencyKeys"} :
                 LET ran == assign(Db, slot.taskId, assignee_id,
                                   ifMatchVersion, fault)
                     req == [slot EXCEPT !.assigneeId = assignee_id,
                                         !.version = ifMatchVersion]
                 IN  /\ WithinBounds(ran.db)
                     /\ Write(ran.db)
                     /\ IF ran.error = ""
                          THEN Reply(h, req, 200, "", ran.value)
                          ELSE Reply(h, req, assignStatus(ran.error),
                                     ran.error, NoValue)
  /\ UNCHANGED dec

\* The status TaskController.transition gives an Error of the repository
transitionStatus(error) ==
  IF error = "VersionMismatch" THEN 409 ELSE 500

\* TaskController.transition after findById: the existence and workspace
\* checks, validateTransition on the row findById read, and the repository
\* transaction.
TransitionFound(h) ==
  /\ handlers[h].pc = "found"
  /\ handlers[h].op = "transition"
  /\ IF handlers[h].task = {}
       THEN /\ Reply(h, handlers[h], 404, "Task not found", NoValue)
            /\ UNCHANGED <<tasks, taskEvents, idempotencyKeys>>
       ELSE \E workspaceId \in Workspaces :
         LET slot == [handlers[h] EXCEPT !.workspaceId = workspaceId]
             task == TheRow(slot.task)
         IN  IF task.workspaceId # workspaceId
               THEN /\ Reply(h, slot, 404, "Task not found in this workspace",
                             NoValue)
                    /\ UNCHANGED <<tasks, taskEvents, idempotencyKeys>>
               ELSE \E role \in UserRole, currentUserId \in Users,
                       to_state \in transitionTaskSchema,
                       ifMatchVersion \in Versions :
                 LET req == [slot EXCEPT !.role = role,
                                         !.userId = IF role = "agent"
                                                      THEN currentUserId
                                                      ELSE "",
                                         !.toState = to_state,
                                         !.version = ifMatchVersion]
                     isValid == validateTransition(task.state, to_state, role,
                                   task.assigneeId, currentUserId)
                 IN  IF ~isValid
                       THEN /\ Reply(h, slot, 409,
                                  "Invalid transition or unauthorized", NoValue)
                            /\ UNCHANGED <<tasks, taskEvents, idempotencyKeys>>
                       ELSE \E fault \in Faults \ {"idempotencyKeys"} :
                         LET ran == transition(Db, req.taskId, to_state,
                                               ifMatchVersion, fault)
                         IN  /\ WithinBounds(ran.db)
                             /\ Write(ran.db)
                             /\ IF ran.error = ""
                                  THEN Reply(h, req, 200, "", ran.value)
                                  ELSE Reply(h, req,
                                         transitionStatus(ran.error),
                                         ran.error, NoValue)
  /\ UNCHANGED dec

\* TaskController.mapTask of what findById returned
mapTask(task, timeline) ==
  [task_id |-> task.id, tenant_id |-> task.tenantId,
   workspace_id |-> task.workspaceId, state |-> task.state,
   assignee_id |-> task.assigneeId, version |-> task.version,
   timeline |-> [i \in 1..Len(timeline) |->
                   [id |-> timeline[i].id, task_id |-> timeline[i].taskId,
                    event_type |-> timeline[i].eventType,
                    payload |-> timeline[i].payload]]]

\* TaskController.get up to the first await
GetStart(h) ==
  /\ handlers[h].pc = "idle"
  /\ \E tenantId \in Tenants, taskId \in TaskIds :
       handlers' = [handlers EXCEPT ![h] =
         [Idle EXCEPT !.op = "get", !.tenantId = tenantId,
                      !.taskId = taskId, !.pc = "findById",
                      !.task = findTask(Db, taskId, tenantId)]]
  /\ UNCHANGED <<tasks, taskEvents, idempotencyKeys, dec>>

\* TaskController.get after findById: one check for absence and workspace
GetFound(h) ==
  /\ handlers[h].pc = "found"
  /\ handlers[h].op = "get"
  /\ \E workspaceId \in Workspaces :
       LET slot == [handlers[h] EXCEPT !.workspaceId = workspaceId]
       IN  IF slot.task = {} \/ TheRow(slot.task).workspaceId # workspaceId
             THEN Reply(h, slot, 404, "Task not found", NoValue)
             ELSE Reply(h, slot, 200, "",
                        mapTask(TheRow(slot.task), slot.timeline))
  /\ UNCHANGED <<tasks, taskEvents, idempotencyKeys, dec>>

\* res.json / res.status().json: the response leaves and the handler ends
Respond(h) ==
  /\ handlers[h].pc = "respond"
  /\ handlers' = [handlers EXCEPT ![h] = Idle]
  /\ UNCHANGED <<tasks, taskEvents, idempotencyKeys, dec>>

NoDecision ==
  [currentState |-> "", toState |-> "", role |-> "", assigneeId |-> "",
   currentUserId |-> "", called |-> FALSE, allowed |-> FALSE]

\* The state after construction: empty tables, no request being handled
Init ==
  /\ tasks = {}
  /\ taskEvents = <<>>
  /\ idempotencyKeys = {}
  /\ handlers = [h \in Handlers |-> Idle]
  /\ dec = NoDecision

Next ==
  \E h \in Handlers :
    \/ Create(h)
    \/ AssignStart(h)
    \/ TransitionStart(h)
    \/ FindById(h)
    \/ AssignFound(h)
    \/ TransitionFound(h)
    \/ Respond(h)

Spec == Init /\ [][Next]_vars

\* ------------------------------------------- requests across the scopes
\* The tenants and workspaces a task may belong to; requests come from
\* Tenants and Workspaces, so a task of tenant_2 or ws_2 is foreign to them.
AllTenants == Tenants \cup {"tenant_2"}
AllWorkspaces == Workspaces \cup {"ws_2"}

\* The row and the event a create leaves behind
CreatedRow(tenantId, workspaceId) ==
  [id |-> 1, tenantId |-> tenantId, workspaceId |-> workspaceId,
   state |-> "NEW", assigneeId |-> Null, version |-> 1]

\* The store after one create by a client of any tenant and workspace
ScopeInit ==
  /\ \E tenantId \in AllTenants, workspaceId \in AllWorkspaces :
       /\ tasks = {CreatedRow(tenantId, workspaceId)}
       /\ taskEvents = <<[id |-> 1, taskId |-> 1, eventType |-> "TaskCreated",
                          payload |-> CreatedRow(tenantId, workspaceId)]>>
  /\ idempotencyKeys = {}
  /\ handlers = [h \in Handlers |-> Idle]
  /\ dec = NoDecision

ScopeNext ==
  \E h \in Handlers :
    \/ GetStart(h)
    \/ GetFound(h)
    \/ AssignStart(h)
    \/ TransitionStart(h)
    \/ FindById(h)
    \/ AssignFound(h)
    \/ TransitionFound(h)
    \/ Respond(h)

SpecScope == ScopeInit /\ [][ScopeNext]_vars

\* ------------------------------------------------------------ listing
\* parseInt of the query strings the requests carry; {} stands for NaN
parseInt(s) ==
  CASE s = "0" -> {0}
    [] s = "1" -> {1}
    [] s = "2" -> {2}
    [] s = "-1" -> {-1}
    [] OTHER -> {}

DefaultLimit == 20

\* TaskRepository.list, its WHERE clause
listed(db, workspaceId, tenantId, filters) ==
  {t \in db.tasks :
     /\ t.workspaceId = workspaceId
     /\ t.tenantId = tenantId
     /\ filters.state # "" => t.state = filters.state
     /\ filters.assigneeId # "" => t.assigneeId = filters.assigneeId
     /\ (filters.cursor # "" /\ parseInt(filters.cursor) # {})
          => \E cursorTimestamp \in parseInt(filters.cursor) :
               t.createdAt < cursorTimestamp}

\* filters.limit || 20
limitOf(filters) ==
  IF filters.limit = {} \/ filters.limit = {0} THEN DefaultLimit
  ELSE CHOOSE n \in filters.limit : TRUE

\* ORDER BY created_at DESC LIMIT n over a set of rows: every answer SQLite
\* may give, rows of one creation time coming in any order; a negative n is
\* no limit.
Pages(rows, n) ==
  LET k == IF n < 0 \/ n > Cardinality(rows) THEN Cardinality(rows) ELSE n
  IN  {p \in [1..k -> rows] :
         /\ \A i \in 1..k, j \in 1..k :
              /\ i < j => p[i].createdAt >= p[j].createdAt
              /\ p[i] = p[j] => i = j
         /\ \A t \in rows :
              (\A i \in 1..k : p[i] # t)
                => \A i \in 1..k : t.createdAt <= p[i].createdAt}

\* TaskRepository.list
list(db, workspaceId, tenantId, filters) ==
  Pages(listed(db, workspaceId, tenantId, filters), limitOf(filters))

\* TaskController.mapTask of a row of list, which has no timeline
mapListed(task) ==
  [task_id |-> task.id, tenant_id |-> task.tenantId,
   workspace_id |-> task.workspaceId, state |-> task.state,
   assignee_id |-> task.assigneeId, version |-> task.version,
   created_at |-> task.createdAt]

\* The query strings of the list requests; "" is an absent parameter
StateQueries == {"", "NEW"}
AssigneeQueries == {"", "user_1"}
LimitQueries == {"", "0", "1", "2", "-1"}
CursorQueries == {"", "2", "x"}

\* TaskController.list: the query runs before the await, the response is
\* sent after it.  The slot keeps the query string as it came.
List(h) ==
  /\ handlers[h].pc = "idle"
  /\ \E tenantId \in Tenants, workspaceId \in Workspaces,
        state \in StateQueries, assignee_id \in AssigneeQueries,
        limit \in LimitQueries, cursor \in CursorQueries :
       LET filters == [state |-> state, assigneeId |-> assignee_id,
                       limit |-> IF limit # "" THEN parseInt(limit)
                                 ELSE {DefaultLimit},
                       cursor |-> cursor]
           slot == [Idle EXCEPT !.op = "list", !.tenantId = tenantId,
                                !.workspaceId = workspaceId,
                                !.query = [state |-> state,
                                           assignee_id |-> assignee_id,
                                           limit |-> limit,
                                           cursor |-> cursor]]
       IN  \E results \in list(Db, workspaceId, tenantId, filters) :
             Reply(h, slot, 200, "",
                   [i \in 1..Len(results) |-> mapListed(results[i])])
  /\ UNCHANGED <<tasks, taskEvents, idempotencyKeys, dec>>

\* The rows a table of tasks may hold: of the requests' scope or of another
\* tenant or workspace, new, assigned or done, created in one of two seconds
ListIds == 1..MaxListed
Progress ==
  {[state |-> "NEW", assigneeId |-> Null, version |-> 1],
   [state |-> "NEW", assigneeId |-> "user_1", version |-> 2],
   [state |-> "DONE", assigneeId |-> "user_1", version |-> 4]}
Scopes ==
  {[tenantId |-> "tenant_1", workspaceId |-> "ws_1"],
   [tenantId |-> "tenant_2", workspaceId |-> "ws_1"],
   [tenantId |-> "tenant_1", workspaceId |-> "ws_2"]}
CreationTimes == {1, 2}
Absent == [absent |-> TRUE]

ListedRow(id, scope, progress, createdAt) ==
  [id |-> id, tenantId |-> scope.tenantId, workspaceId |-> scope.workspaceId,
   state |-> progress.state, assigneeId |-> progress.assigneeId,
   version |-> progress.version, createdAt |-> createdAt]

RowsOfId(id) ==
  {ListedRow(id, scope, progress, createdAt) :
     scope \in Scopes, progress \in Progress, createdAt \in CreationTimes}
    \cup {Absent}

\* Any table of up to MaxListed tasks; list reads no other table
ListInit ==
  /\ \E table \in [ListIds -> UNION {RowsOfId(id) : id \in ListIds}] :
       /\ \A id \in ListIds : table[id] \in RowsOfId(id)
       /\ tasks = {table[id] : id \in ListIds} \ {Absent}
  /\ taskEvents = <<>>
  /\ idempotencyKeys = {}
  /\ handlers = [h \in Handlers |-> Idle]
  /\ dec = NoDecision

\* One list request at a time
ListNext ==
  \E h \in Handlers :
    \/ /\ \A g \in Handlers : handlers[g].pc = "idle"
       /\ List(h)
    \/ Respond(h)

SpecList == ListInit /\ [][ListNext]_vars

\* --------------------------------------- validateTransition on its own
\* Every argument validateTransition can be given: the four states on either
\* side, a role that is neither agent nor manager, an unassigned task, a
\* request without x-user-id.
DecideInit ==
  /\ tasks = {}
  /\ taskEvents = <<>>
  /\ idempotencyKeys = {}
  /\ handlers = [h \in Handlers |-> Idle]
  /\ dec \in [currentState : TaskState, toState : TaskState,
              role : UserRole \cup {"admin"},
              assigneeId : Users \cup {Null},
              currentUserId : Users \cup {Undefined},
              called : {FALSE}, allowed : {FALSE}]

Decide ==
  /\ ~dec.called
  /\ dec' = [dec EXCEPT !.called = TRUE,
               !.allowed = validateTransition(dec.currentState, dec.toState,
                              dec.role, dec.assigneeId, dec.currentUserId)]
  /\ UNCHANGED <<tasks, taskEvents, idempotencyKeys, handlers>>

SpecDecide == DecideInit /\ [][Decide]_vars

\* ------------------------------------------------ vocabulary of the claims
Terminal == {"DONE", "CANCELLED"}
Mutations == {"assign", "transition"}

RowsOf(rows, id) == {r \in rows : r.id = id}
EventsOf(log, id) == SelectSeq(log, LAMBDA e : e.taskId = id)
KeyRows(keys, key) == {k \in keys : k.key = key}

Responded(h) == handlers[h].pc = "respond"
Accepted(h) == Responded(h) /\ handlers[h].status \in {200, 201}

\* In this step handler h computes its response
Answers(h) == handlers[h].pc # "respond" /\ handlers'[h].pc = "respond"
AnswersOk(h) == Answers(h) /\ handlers'[h].status \in {200, 201}

StoreUnchanged == UNCHANGED <<tasks, taskEvents, idempotencyKeys>>

\* Handler h has answered an assign or transition that reached the repository
\* with If-Match-Version v, after findById showed it the task at version v in
\* a state in which the request is acceptable, and the database refused no
\* statement.
Raced(h, v) ==
  /\ Responded(h)
  /\ handlers[h].op \in Mutations
  /\ handlers[h].version = v
  /\ handlers[h].task # {}
  /\ TheRow(handlers[h].task).version = v
  /\ TheRow(handlers[h].task).state \notin Terminal
  /\ handlers[h].status # 500

Cached(key) == TheRow(KeyRows(idempotencyKeys, key)).responsePayload

CreatedEvents(log, id) ==
  SelectSeq(log, LAMBDA e : e.taskId = id /\ e.eventType = "TaskCreated")

\* Handler h has answered 201 to a create that carried this key
Created(h, key) ==
  /\ Responded(h)
  /\ handlers[h].op = "create"
  /\ handlers[h].key = key
  /\ handlers[h].status = 201

C2_State ==
  \A h \in Handlers, key \in Keys :
    Created(h, key) =>
      /\ KeyRows(idempotencyKeys, key) # {}
      /\ handlers[h].body = Cached(key)
      /\ handlers[h].body.version = 1
      /\ \A g \in Handlers :
           Created(g, key) => handlers[g].body = handlers[h].body
      /\ Cardinality(RowsOf(tasks, handlers[h].body.task_id)) = 1
      /\ Len(CreatedEvents(taskEvents, handlers[h].body.task_id)) = 1

C2_Step ==
  /\ \A k \in idempotencyKeys : k \in idempotencyKeys'
  /\ \A h \in Handlers, key \in Keys :
       (/\ Answers(h)
        /\ handlers'[h].op = "create"
        /\ handlers'[h].key = key)
       => IF KeyRows(idempotencyKeys, key) # {}
            THEN /\ StoreUnchanged
                 /\ handlers'[h].status = 201
                 /\ handlers'[h].body = Cached(key)
            ELSE handlers'[h].status = 201 =>
                 /\ tasks' \ tasks =
                      {[id |-> handlers'[h].body.task_id,
                        tenantId |-> handlers'[h].tenantId,
                        workspaceId |-> handlers'[h].workspaceId,
                        state |-> "NEW", assigneeId |-> Null, version |-> 1]}
                 /\ tasks \subseteq tasks'
                 /\ Len(taskEvents') = Len(taskEvents) + 1
                 /\ KeyRows(idempotencyKeys', key) =
                      {[key |-> key, responsePayload |-> handlers'[h].body]}

\* C2: every create that carries the same idempotency key is answered with
\* the response of the first one (same taskId, version 1), whatever happened
\* in between; the first inserts exactly one task row and one TaskCreated
\* event, a later one writes nothing, and the cached response never changes.
C2_IdempotentCreate == []C2_State /\ [][C2_Step]_vars

\* Two creates with the same key have both been answered, after the task
\* they name has already moved past version 1.
C2_Witness ==
  \E g \in Handlers, h \in Handlers, key \in Keys :
    /\ g # h
    /\ Created(g, key)
    /\ Created(h, key)
    /\ \E r \in RowsOf(tasks, handlers[h].body.task_id) : r.version > 1

C3_Step ==
  /\ \A r \in tasks :
       \E n \in RowsOf(tasks', r.id) :
         /\ n.version \in {r.version, r.version + 1}
         /\ n.version = r.version + 1 =>
              \E h \in Handlers :
                /\ AnswersOk(h)
                /\ handlers'[h].op \in Mutations
                /\ handlers'[h].taskId = r.id
                /\ handlers'[h].body.version = n.version
  /\ \A n \in tasks' :
       RowsOf(tasks, n.id) = {} =>
         /\ n.version = 1
         /\ \E h \in Handlers :
              /\ AnswersOk(h)
              /\ handlers'[h].op = "create"
              /\ handlers'[h].body.task_id = n.id
  /\ \A h \in Handlers :
       (AnswersOk(h) /\ handlers'[h].op \in Mutations) =>
         \E r \in RowsOf(tasks, handlers'[h].taskId) :
           \E n \in RowsOf(tasks', r.id) : n.version = r.version + 1
  /\ \A h \in Handlers :
       (Answers(h) /\ ~AnswersOk(h)) => tasks' = tasks

\* C3: a task row appears with version 1, and in every step its version
\* either stays or grows by exactly 1; it grows exactly in the steps in which
\* an assign or transition on that task is accepted, and a step that answers
\* a request with an error changes no row.
C3_VersionSteps == [][C3_Step]_vars

\* A task has reached version 3 while a request on it has just been refused.
C3_Witness ==
  \E r \in tasks, h \in Handlers :
    /\ r.version = 3
    /\ Responded(h)
    /\ handlers[h].taskId = r.id
    /\ handlers[h].status = 409

EventKind(op) ==
  CASE op = "create" -> "TaskCreated"
    [] op = "assign" -> "TaskAssigned"
    [] op = "transition" -> "TaskStateChanged"

\* Handler h answers, in this step, a create from the idempotency cache
AnswersCached(h) ==
  /\ Answers(h)
  /\ handlers'[h].op = "create"
  /\ handlers'[h].key # NoKey
  /\ KeyRows(idempotencyKeys, handlers'[h].key) # {}

C4_State ==
  \A r \in tasks : Len(EventsOf(taskEvents, r.id)) = r.version

C4_Step ==
  \A h \in Handlers :
    Answers(h) =>
      IF AnswersOk(h) /\ ~AnswersCached(h)
        THEN /\ Len(taskEvents') = Len(taskEvents) + 1
             /\ SubSeq(taskEvents', 1, Len(taskEvents)) = taskEvents
             /\ taskEvents'[Len(taskEvents')].taskId =
                  handlers'[h].body.task_id
             /\ taskEvents'[Len(taskEvents')].eventType =
                  EventKind(handlers'[h].op)
        ELSE taskEvents' = taskEvents

\* C4: a step that accepts a create, assign or transition appends exactly
\* one event, of the kind of the operation and for its task; a step that
\* refuses a request, or answers a create from the cache, appends none; so
\* every task has as many events as its version says.
C4_OneEventPerMutation == []C4_State /\ [][C4_Step]_vars

\* A task at version 3 with its three events, one of each kind, while a
\* request has been refused.
C4_Witness ==
  \E r \in tasks, h \in Handlers :
    /\ r.version = 3
    /\ {EventsOf(taskEvents, r.id)[i].eventType : i \in 1..3} =
         {"TaskCreated", "TaskAssigned", "TaskStateChanged"}
    /\ Responded(h)
    /\ ~Accepted(h)

Last(S) == CHOOSE i \in S : \A j \in S : j <= i

\* The state and assignee a task's events add up to
ReplayedState(log) ==
  LET changes == {i \in 1..Len(log) : log[i].eventType = "TaskStateChanged"}
  IN  IF changes = {} THEN "NEW" ELSE log[Last(changes)].payload.to

ReplayedAssignee(log) ==
  LET assigns == {i \in 1..Len(log) : log[i].eventType = "TaskAssigned"}
  IN  IF assigns = {} THEN Null ELSE log[Last(assigns)].payload.assigneeId

Commits(h) ==
  /\ AnswersOk(h)
  /\ handlers'[h].op = "transition"

\* C6: a task row whose state is DONE or CANCELLED is the same row after
\* every step, and no step answers an assign or transition on it with
\* success.
C6_TerminalIsFinal ==
  [][\A r \in tasks :
       r.state \in Terminal =>
         /\ r \in tasks'
         /\ \A h \in Handlers :
              (Answers(h) /\ handlers'[h].op \in Mutations
                 /\ handlers'[h].taskId = r.id) => ~AnswersOk(h)]_vars

\* C7: every transition that commits is one validateTransition allows for
\* the state and assignee the task row holds when the write happens.
C7_AuthorizedAtWrite ==
  [][\A h \in Handlers :
       Commits(h) =>
         \E r \in RowsOf(tasks, handlers'[h].taskId) :
           validateTransition(r.state, handlers'[h].toState,
                              handlers'[h].role, r.assigneeId,
                              handlers'[h].userId)]_vars

\* The transition table of the specification
Edges ==
  {<<"NEW", "IN_PROGRESS">>, <<"NEW", "CANCELLED">>,
   <<"IN_PROGRESS", "DONE">>, <<"IN_PROGRESS", "CANCELLED">>}

\* C8: validateTransition returns false for every pair of states that is not
\* an edge of the table, whatever the role, the assignee and the acting user.
C8_NonEdgeRejected ==
  (dec.called /\ <<dec.currentState, dec.toState>> \notin Edges)
    => ~dec.allowed

\* validateTransition has refused NEW -> DONE to the agent the task is
\* assigned to.
C8_Witness ==
  /\ dec.called
  /\ dec.currentState = "NEW"
  /\ dec.toState = "DONE"
  /\ dec.role = "agent"
  /\ dec.assigneeId = dec.currentUserId
  /\ ~dec.allowed

\* C9: a manager's transition commits only with toState = CANCELLED, on a
\* task row that is in NEW or IN_PROGRESS and at the version the request
\* carries; a manager's request for another target is answered with an error
\* and writes nothing.
C9_ManagerOnlyCancels ==
  [][\A h \in Handlers :
       (/\ Answers(h)
        /\ handlers'[h].op = "transition"
        /\ handlers'[h].role = "manager")
       => IF AnswersOk(h)
            THEN /\ handlers'[h].toState = "CANCELLED"
                 /\ \E r \in RowsOf(tasks, handlers'[h].taskId) :
                      /\ r.state \in {"NEW", "IN_PROGRESS"}
                      /\ r.version = handlers'[h].version
            ELSE StoreUnchanged]_vars

\* C10: an agent's transition commits only on a task row whose assignee is
\* the acting user, and never with toState = CANCELLED; a transition of any
\* other role than agent or manager never commits.
C10_AgentOnlyOwnTask ==
  [][\A h \in Handlers :
       Commits(h) =>
         /\ handlers'[h].role \in {"agent", "manager"}
         /\ handlers'[h].role = "agent" =>
              /\ handlers'[h].toState # "CANCELLED"
              /\ \E r \in RowsOf(tasks, handlers'[h].taskId) :
                   r.assigneeId = handlers'[h].userId]_vars

\* Handler h is about to continue after findById, which showed it the row r
\* that the store still holds, and the store has room for one more event.
Fresh(h, op, r) ==
  /\ handlers[h].pc = "found"
  /\ handlers[h].op = op
  /\ handlers[h].task = {r}
  /\ r \in tasks
  /\ Len(taskEvents) < MaxEvents

Result(r, state, version) ==
  [task_id |-> r.id, state |-> state, version |-> version]

\* Handler h can answer 200 now to the transition of agent r.assigneeId to
\* toState that carries the version of r, returning toState and version + 1
AgentMoves(h, r, toState) ==
  ENABLED (/\ TransitionFound(h)
           /\ handlers'[h].role = "agent"
           /\ handlers'[h].userId = r.assigneeId
           /\ handlers'[h].toState = toState
           /\ handlers'[h].version = r.version
           /\ handlers'[h].status = 200
           /\ handlers'[h].body = Result(r, toState, r.version + 1)
           /\ tasks' = (tasks \ {r})
                          \cup {[r EXCEPT !.state = toState,
                                           !.version = r.version + 1]})

\* Handler h can answer 200 now to the manager's assign of r to user that
\* carries the version of r, returning the state of r and version + 1
ManagerAssigns(h, r, user) ==
  ENABLED (/\ AssignFound(h)
           /\ handlers'[h].assigneeId = user
           /\ handlers'[h].version = r.version
           /\ handlers'[h].status = 200
           /\ handlers'[h].body = Result(r, r.state, r.version + 1)
           /\ tasks' = (tasks \ {r})
                          \cup {[r EXCEPT !.assigneeId = user,
                                           !.version = r.version + 1]})

\* C11: on a freshly created task (NEW, version 1) a manager's assign to any
\* user with version 1 can be answered 200 with {NEW, 2}; on a task assigned
\* to a user, that agent's transition with the current version can be
\* answered 200, NEW -> IN_PROGRESS and IN_PROGRESS -> DONE, each returning
\* the new state and version + 1; and a task with only its TaskCreated and
\* TaskAssigned events is NEW at version 2.
C11_HappyPath ==
  /\ \A h \in Handlers, r \in tasks, user \in Users :
       (Fresh(h, "assign", r) /\ r.state = "NEW" /\ r.version = 1)
         => ManagerAssigns(h, r, user)
  /\ \A h \in Handlers, r \in tasks :
       (Fresh(h, "transition", r) /\ r.assigneeId \in Users)
         => /\ r.state = "NEW" => AgentMoves(h, r, "IN_PROGRESS")
            /\ r.state = "IN_PROGRESS" => AgentMoves(h, r, "DONE")
  /\ \A r \in tasks :
       LET log == EventsOf(taskEvents, r.id)
       IN  /\ r.version = 1 => r.state = "NEW" /\ r.assigneeId = Null
           /\ (Len(log) = 2 /\ log[2].eventType = "TaskAssigned")
                => r.state = "NEW" /\ r.version = 2

\* The whole path has run: create, assign to a user, and that agent's two
\* transitions, the last answered with DONE at version 4.
C11_Witness ==
  \E h \in Handlers, r \in tasks :
    /\ Accepted(h)
    /\ handlers[h].op = "transition"
    /\ handlers[h].role = "agent"
    /\ handlers[h].userId = r.assigneeId
    /\ handlers[h].version = 3
    /\ handlers[h].body = Result(r, "DONE", 4)
    /\ r.state = "DONE"
    /\ [i \in 1..4 |-> taskEvents[i].eventType] =
         <<"TaskCreated", "TaskAssigned", "TaskStateChanged",
           "TaskStateChanged">>

\* Handler h answers, in this step, a create that found nothing cached
AnswersNew(h) ==
  /\ Answers(h)
  /\ handlers'[h].op = "create"
  /\ ~AnswersCached(h)

\* The row a create of handler h inserts
NewRow(h) ==
  [id |-> handlers'[h].taskId, tenantId |-> handlers'[h].tenantId,
   workspaceId |-> handlers'[h].workspaceId, state |-> "NEW",
   assigneeId |-> Null, version |-> 1]

C12_Step ==
  \A h \in Handlers :
    AnswersNew(h) =>
      IF handlers'[h].status = 201
        THEN /\ handlers'[h].body = Result(NewRow(h), "NEW", 1)
             /\ NewRow(h) \notin tasks
             /\ tasks' = tasks \cup {NewRow(h)}
             /\ taskEvents' =
                  Append(taskEvents,
                         [id |-> Len(taskEvents) + 1,
                          taskId |-> handlers'[h].taskId,
                          eventType |-> "TaskCreated",
                          payload |-> NewRow(h)])
             /\ idempotencyKeys' =
                  IF handlers'[h].key = NoKey THEN idempotencyKeys
                  ELSE idempotencyKeys \cup
                         {[key |-> handlers'[h].key,
                           responsePayload |-> handlers'[h].body]}
        ELSE /\ handlers'[h].status = 500
             /\ StoreUnchanged

\* C12: a create that finds nothing cached either fails and writes nothing,
\* or in one step inserts the task (NEW, version 1, no assignee), appends its
\* one TaskCreated event, stores the response under the key if there is one,
\* and returns {task id, NEW, 1}; on an empty store it can always succeed.
C12_CreateIsOneUnit ==
  /\ [](\A h \in Handlers :
          (handlers[h].pc = "idle" /\ tasks = {})
            => ENABLED (Create(h) /\ handlers'[h].status = 201
                          /\ handlers'[h].key # NoKey))
  /\ [][C12_Step]_vars

\* A create with a key has been answered 201 and its task, its event and its
\* idempotency record are all there.
C12_Witness ==
  \E h \in Handlers :
    /\ Accepted(h)
    /\ handlers[h].op = "create"
    /\ handlers[h].key # NoKey
    /\ tasks = {[id |-> handlers[h].taskId, tenantId |-> handlers[h].tenantId,
                 workspaceId |-> handlers[h].workspaceId, state |-> "NEW",
                 assigneeId |-> Null, version |-> 1]}
    /\ Len(taskEvents) = 1
    /\ idempotencyKeys =
         {[key |-> handlers[h].key, responsePayload |-> handlers[h].body]}

\* What the repository answers to every call with a version the row has not
Mismatch == Ran(Db, "VersionMismatch", NoValue)

C13_State ==
  \A r \in tasks, v \in Versions, fault \in Faults \ {"idempotencyKeys"} :
    v # r.version =>
    /\ \A user \in Users : assign(Db, r.id, user, v, fault) = Mismatch
    /\ \A toState \in transitionTaskSchema :
         transition(Db, r.id, toState, v, fault) = Mismatch

C13_Step ==
  \A h \in Handlers :
    (Answers(h) /\ handlers'[h].error = "VersionMismatch") =>
      /\ handlers'[h].op \in Mutations
      /\ handlers'[h].status = 409
      /\ StoreUnchanged
      /\ \A r \in RowsOf(tasks, handlers'[h].taskId) :
           r.version # handlers'[h].version

\* C13: on every reachable store, assign and transition called for an
\* existing task with a version other than the stored one throw
\* VersionMismatch and leave the three tables as they were; a request so
\* refused is answered 409 in a step that writes nothing.
C13_MismatchAppliesNothing == []C13_State /\ [][C13_Step]_vars

\* An assign that was already applied has been repeated with its old version
\* and refused with VersionMismatch.
C13_Witness ==
  \E g \in Handlers, h \in Handlers, r \in tasks :
    /\ g # h
    /\ Accepted(g)
    /\ Responded(h)
    /\ handlers[g].op = "assign"
    /\ handlers[h].op = "assign"
    /\ handlers[g].assigneeId = handlers[h].assigneeId
    /\ handlers[g].version = handlers[h].version
    /\ handlers[h].task = {r}
    /\ r.version = handlers[g].version + 1
    /\ r.assigneeId = handlers[g].assigneeId
    /\ handlers[h].error = "VersionMismatch"

\* The newest event of the log after this step
Appended == taskEvents'[Len(taskEvents')]

C14_Step ==
  \A h \in Handlers :
    (AnswersOk(h) /\ handlers'[h].op \in Mutations) =>
      \E r \in RowsOf(tasks, handlers'[h].taskId) :
        IF handlers'[h].op = "assign"
          THEN /\ tasks' = (tasks \ {r}) \cup
                    {[r EXCEPT !.assigneeId = handlers'[h].assigneeId,
                               !.version = r.version + 1]}
               /\ handlers'[h].body = Result(r, r.state, r.version + 1)
               /\ taskEvents' = Append(taskEvents, Appended)
               /\ Appended.taskId = r.id
               /\ Appended.eventType = "TaskAssigned"
               /\ Appended.payload =
                    [assigneeId |-> handlers'[h].assigneeId]
          ELSE /\ tasks' = (tasks \ {r}) \cup
                    {[r EXCEPT !.state = handlers'[h].toState,
                               !.version = r.version + 1]}
               /\ handlers'[h].body =
                    Result(r, handlers'[h].toState, r.version + 1)
               /\ taskEvents' = Append(taskEvents, Appended)
               /\ Appended.taskId = r.id
               /\ Appended.eventType = "TaskStateChanged"
               /\ Appended.payload =
                    [from |-> r.state, to |-> handlers'[h].toState]

\* C14: a step that accepts an assign changes, of the task row, only the
\* assignee (to the requested user) and the version (+1), returns the
\* state the row had and has, and appends one TaskAssigned event carrying
\* the new assignee; a step that accepts a transition changes only the state
\* (to the requested one) and the version (+1) and leaves the assignee.
C14_AssignKeepsState == [][C14_Step]_vars

\* A task that is IN_PROGRESS has been reassigned and is still IN_PROGRESS,
\* and a transition has left its assignee in place.
C14_Witness ==
  \E h \in Handlers, r \in tasks :
    /\ Accepted(h)
    /\ handlers[h].op = "assign"
    /\ handlers[h].taskId = r.id
    /\ handlers[h].body.state = "IN_PROGRESS"
    /\ r.state = "IN_PROGRESS"
    /\ r.assigneeId = handlers[h].assigneeId
    /\ r.version = handlers[h].body.version

C15_State ==
  \A state \in TaskState, role \in UserRole \cup {"admin"} :
    canAssign(state, role) <=>
      (role = "manager" /\ state \in {"NEW", "IN_PROGRESS"})

C15_Step ==
  \A h \in Handlers :
    (Answers(h) /\ handlers'[h].op = "assign") =>
      /\ AnswersOk(h) =>
           \E r \in RowsOf(tasks, handlers'[h].taskId) :
             /\ canAssign(r.state, handlers'[h].role)
             /\ r.version = handlers'[h].version
      /\ handlers'[h].role # "manager" =>
           /\ handlers'[h].status = 403
           /\ StoreUnchanged
      /\ (\E r \in RowsOf(tasks, handlers'[h].taskId) :
            ~canAssign(r.state, handlers'[h].role)) =>
           /\ ~AnswersOk(h)
           /\ StoreUnchanged

\* C15: canAssign(state, role) is true exactly for role = manager and state
\* NEW or IN_PROGRESS; a step accepts an assign only if canAssign holds for
\* the requester's role and the state the row has in the store at that step;
\* an assign of any other role is answered 403 and writes nothing.
C15_AssignOnlyIfCanAssign == []C15_State /\ [][C15_Step]_vars

\* An agent's assign has been refused with 403, and a manager's assign that
\* carried the stored version has been refused because the task is terminal.
C15_Witness ==
  \E g \in Handlers, h \in Handlers, r \in tasks :
    /\ Responded(g)
    /\ handlers[g].op = "assign"
    /\ handlers[g].role = "agent"
    /\ handlers[g].status = 403
    /\ Responded(h)
    /\ handlers[h].op = "assign"
    /\ handlers[h].role = "manager"
    /\ handlers[h].error = "InvalidState"
    /\ handlers[h].version = r.version
    /\ r.state \in Terminal

C16_State ==
  \A k \in idempotencyKeys :
    /\ KeyRows(idempotencyKeys, k.key) = {k}
    /\ k.key # NoKey
    /\ k.responsePayload.state = "NEW"
    /\ k.responsePayload.version = 1
    /\ Len(CreatedEvents(taskEvents, k.responsePayload.task_id)) = 1

C16_Step ==
  /\ idempotencyKeys \subseteq idempotencyKeys'
  /\ \A k \in idempotencyKeys' \ idempotencyKeys :
       /\ KeyRows(idempotencyKeys, k.key) = {}
       /\ \E h \in Handlers :
            /\ AnswersNew(h)
            /\ handlers'[h].status = 201
            /\ handlers'[h].key = k.key
            /\ handlers'[h].body = k.responsePayload
  /\ \A h \in Handlers :
       AnswersCached(h) =>
         /\ tasks' = tasks
         /\ taskEvents' = taskEvents
         /\ idempotencyKeys' = idempotencyKeys

\* C16: every step keeps every idempotency record as it is; a record is
\* added only by the first successful create with its key and holds that
\* create's response; there is one record per key; and a create that finds
\* its key inserts no task row and no event.
C16_FirstWriteWins == []C16_State /\ [][C16_Step]_vars

\* A create has been answered from the record of its key after the task the
\* record names has been assigned and cancelled.
C16_Witness ==
  \E h \in Handlers, k \in idempotencyKeys, r \in tasks :
    /\ Accepted(h)
    /\ handlers[h].op = "create"
    /\ handlers[h].key = k.key
    /\ handlers[h].body = k.responsePayload
    /\ r.id = k.responsePayload.task_id
    /\ r.state = "CANCELLED"
    /\ r.version = 3
    /\ handlers[h].taskId # r.id

C18_State ==
  \A i \in 1..Len(taskEvents) :
    /\ RowsOf(tasks, taskEvents[i].taskId) # {}
    /\ \A j \in 1..Len(taskEvents) :
         taskEvents[i].id = taskEvents[j].id => i = j

C18_Step ==
  /\ Len(taskEvents') >= Len(taskEvents)
  /\ \A i \in 1..Len(taskEvents) : taskEvents'[i] = taskEvents[i]

\* C18: every step leaves every event of the log in its place and as it was
\* (id, task, kind, payload), whatever the state of its task, so the log only
\* grows at its end; every event has its own id and names a task row that
\* exists.
C18_AppendOnly == []C18_State /\ [][C18_Step]_vars

\* The log holds four events of a task that is terminal, and a request on
\* that task has been refused since.
C18_Witness ==
  \E r \in tasks, h \in Handlers :
    /\ r.state \in Terminal
    /\ Len(EventsOf(taskEvents, r.id)) = 4
    /\ Responded(h)
    /\ handlers[h].op \in Mutations
    /\ handlers[h].task = {r}
    /\ ~Accepted(h)

\* Handler h can answer 200 now to an assign to user carrying the version of r
AssignSucceeds(h, r, user) ==
  ENABLED (/\ AssignFound(h)
           /\ handlers'[h].assigneeId = user
           /\ handlers'[h].version = r.version
           /\ handlers'[h].status = 200
           /\ handlers'[h].body.version = r.version + 1)

\* Handler h can answer 200 now to this transition carrying the version of r
TransitionSucceeds(h, r, role, user, toState) ==
  ENABLED (/\ TransitionFound(h)
           /\ handlers'[h].role = role
           /\ role = "agent" => handlers'[h].userId = user
           /\ handlers'[h].toState = toState
           /\ handlers'[h].version = r.version
           /\ handlers'[h].status = 200
           /\ handlers'[h].body.version = r.version + 1)

C19_State ==
  \A h \in Handlers, r \in tasks :
    /\ (Fresh(h, "assign", r) /\ canAssign(r.state, handlers[h].role))
         => \A user \in Users : AssignSucceeds(h, r, user)
    /\ Fresh(h, "transition", r)
         => \A role \in UserRole, user \in Users,
               toState \in transitionTaskSchema :
              validateTransition(r.state, toState, role, r.assigneeId, user)
                => TransitionSucceeds(h, r, role, user, toState)

C19_Step ==
  \A h \in Handlers :
    /\ (Answers(h) /\ handlers'[h].error = "VersionMismatch")
         => StoreUnchanged
    /\ (AnswersOk(h) /\ handlers'[h].op \in Mutations)
         => \E r \in RowsOf(tasks, handlers'[h].taskId) :
              r.version = handlers'[h].version
    /\ (Responded(h) /\ handlers'[h] # handlers[h])
         => /\ handlers'[h] = Idle
            /\ StoreUnchanged

\* C19: a request refused with VersionMismatch writes nothing, and once a
\* handler has answered it does nothing but end (nothing is retried for the
\* caller); a request is accepted only with the version the row has; and
\* whenever a request has read the row the store still holds and is
\* authorized for it, it can be answered 200 when it carries that row's
\* version.
C19_RetryWithFreshVersion == []C19_State /\ [][C19_Step]_vars

\* A request was refused with VersionMismatch and the same request, sent
\* again with the version of the row as read, was accepted.
C19_Witness ==
  \E g \in Handlers, h \in Handlers, r \in tasks :
    /\ g # h
    /\ Responded(g)
    /\ handlers[g].error = "VersionMismatch"
    /\ Accepted(h)
    /\ handlers[h].op = handlers[g].op
    /\ handlers[h].op \in Mutations
    /\ handlers[h].role = handlers[g].role
    /\ handlers[h].userId = handlers[g].userId
    /\ handlers[h].assigneeId = handlers[g].assigneeId
    /\ handlers[h].toState = handlers[g].toState
    /\ handlers[h].task = handlers[g].task
    /\ handlers[h].version = TheRow(handlers[h].task).version
    /\ handlers[g].version # handlers[h].version
    /\ r.version = handlers[h].version + 1

Reads == {"get"} \cup Mutations

\* Handler h answers, in this step, a request for a task of another tenant,
\* or of another workspace than the one the request names
AnswersForeign(h) ==
  /\ Answers(h)
  /\ handlers'[h].op \in Reads
  /\ \E r \in RowsOf(tasks, handlers'[h].taskId) :
       \/ r.tenantId # handlers'[h].tenantId
       \/ /\ handlers'[h].workspaceId \in Workspaces
          /\ r.workspaceId # handlers'[h].workspaceId

NotFound == {"Task not found", "Task not found in this workspace"}

C17_Step ==
  \A h \in Handlers :
    /\ AnswersForeign(h) =>
         /\ StoreUnchanged
         /\ handlers'[h].body = NoValue
         /\ IF handlers'[h].op = "assign" /\ handlers'[h].role # "manager"
              THEN handlers'[h].status = 403
              ELSE /\ handlers'[h].status = 404
                   /\ handlers'[h].error \in NotFound
    /\ (Answers(h) /\ handlers'[h].op = "get"
          /\ handlers'[h].status = 200) =>
         /\ handlers'[h].body.tenant_id = handlers'[h].tenantId
         /\ handlers'[h].body.workspace_id = handlers'[h].workspaceId

Listed(h) == Responded(h) /\ handlers[h].op = "list"

\* The page holds only rows of the request's workspace and tenant that match
\* the state and assignee filters given and are older than the cursor given
Selected(h) ==
  \A i \in 1..Len(handlers[h].body) :
    LET row == handlers[h].body[i]
        query == handlers[h].query
    IN  /\ row.workspace_id = handlers[h].workspaceId
        /\ row.tenant_id = handlers[h].tenantId
        /\ query.state # "" => row.state = query.state
        /\ query.assignee_id # "" => row.assignee_id = query.assignee_id
        /\ \A cursorTimestamp \in parseInt(query.cursor) :
             row.created_at < cursorTimestamp

\* The page is in descending order of creation time
Descending(h) ==
  \A i \in 1..Len(handlers[h].body), j \in 1..Len(handlers[h].body) :
    i < j => handlers[h].body[i].created_at >= handlers[h].body[j].created_at

\* The page has at most limit rows, and at most 20 when no limit is given
Limited(h) ==
  LET given == {n \in parseInt(handlers[h].query.limit) : n >= 0}
  IN  /\ \A n \in given : Len(handlers[h].body) <= n
      /\ given = {} => Len(handlers[h].body) <= DefaultLimit

\* C20: a list answer holds only rows of the request's workspace and tenant
\* that match the optional state and assignee filters and are older than the
\* optional cursor, in descending order of creation time, and at most limit
\* of them, at most 20 when no limit is given.
C20_ListPage ==
  \A h \in Handlers :
    Listed(h) => Selected(h) /\ Descending(h) /\ Limited(h)

\* What list does keep: everything of C20 for a limit other than 0
C20_ListPageOfPositiveLimit ==
  \A h \in Handlers :
    Listed(h) =>
      /\ Selected(h)
      /\ Descending(h)
      /\ handlers[h].query.limit # "0" => Limited(h)

\* ---------------------------------------------------------------- C21
\* In this step handler h answers an assign that reached the repository
\* while the store holds row r of its task
AssignReaches(h, r) ==
  /\ Answers(h)
  /\ handlers[h].pc = "found"
  /\ handlers'[h].op = "assign"
  /\ handlers'[h].version \in Versions
  /\ r \in RowsOf(tasks, handlers'[h].taskId)

\* C21: an assign that reaches the repository while the stored task is DONE
\* or CANCELLED is answered InvalidState, whether or not the version it
\* carries is the stored one, and changes nothing.
C21_TerminalBeforeVersion ==
  [][\A h \in Handlers, r \in tasks :
       (AssignReaches(h, r) /\ r.state \in Terminal)
         => /\ handlers'[h].error = "InvalidState"
            /\ StoreUnchanged]_vars

\* What assign does keep: InvalidState on a terminal task when the version
\* carried is the stored one, VersionMismatch when it is not
C21_VersionBeforeTerminal ==
  [][\A h \in Handlers, r \in tasks :
       (AssignReaches(h, r) /\ r.state \in Terminal)
         => /\ handlers'[h].error =
                 IF handlers'[h].version = r.version THEN "InvalidState"
                 ELSE "VersionMismatch"
            /\ handlers'[h].status = 409
            /\ StoreUnchanged]_vars

\* ---------------------------------------------------------------- C22
\* C22: TaskRepository.transition called on a stored task that is DONE or
\* CANCELLED throws InvalidState and writes nothing, whatever state it is
\* asked for and also with the stored version.
C22_StoreGuardsTerminal ==
  \A r \in tasks, toState \in TaskState :
    r.state \in Terminal =>
      transition(Db, r.id, toState, r.version, "none")
        = Ran(Db, "InvalidState", NoValue)

\* What transition does instead: on every stored task, terminal or not, it
\* writes the state asked for when the version is the stored one
C22_StoreGuardsVersionOnly ==
  \A r \in tasks, toState \in TaskState :
    Len(taskEvents) < MaxEvents =>
      LET ran == transition(Db, r.id, toState, r.version, "none")
      IN  /\ ran.error = ""
          /\ ran.db.tasks = (tasks \ {r}) \cup
               {[r EXCEPT !.state = toState, !.version = r.version + 1]}

\* ---------------------------------------------------------------- C23
\* The TaskStateChanged events of a log
StateChanges(log) ==
  SelectSeq(log, LAMBDA e : e.eventType = "TaskStateChanged")

\* C23: every TaskStateChanged event of the log carries an edge of the
\* transition table, and no task has more than two of them.
C23_ChangesAlongEdges ==
  \A r \in tasks :
    LET changes == StateChanges(EventsOf(taskEvents, r.id))
    IN  /\ \A i \in 1..Len(changes) :
             <<changes[i].payload.from, changes[i].payload.to>> \in Edges
        /\ Len(changes) <= 2

\* ------------------------------------------- the columns a request keeps
\* The task rows with all their columns: title and priority as create got
\* them, created_at and updated_at in seconds of the clock.
Titles == {"title_1", "title_2"}
Priorities == {"LOW", "HIGH"}
Times == 1..MaxTime

\* What the clock may show: no second before one the store has recorded
Clock(db) ==
  {now \in Times : \A r \in db.tasks : r.createdAt <= now /\ r.updatedAt <= now}

\* An update that also sets created_at
touchCreation(db, ran, now) ==
  [ran EXCEPT !.db.tasks =
     {IF r \in db.tasks THEN r
      ELSE [r EXCEPT !.createdAt = now, !.updatedAt = now] : r \in @}]

\* The third column of the update of assign and of transition: updatedAt is
\* Math.floor(Date.now() / 1000) in the row the update has changed
touch(db, ran, now) ==
  [ran EXCEPT !.db.tasks =
     {IF r \in db.tasks THEN r ELSE [r EXCEPT !.updatedAt = now] : r \in @}]

\* The columns of the insert of create that the handlers above leave out:
\* title and priority of the task given, created_at and updated_at by their
\* default unixepoch()
insertColumns(db, ran, task, now) ==
  [ran EXCEPT !.db.tasks =
     {IF r \in db.tasks THEN r
      ELSE r @@ [title |-> task.title, priority |-> task.priority,
                 createdAt |-> now, updatedAt |-> now] : r \in @}]

\* One request at a time on the whole rows: TaskRepository.create
FrameCreate(h) ==
  /\ handlers[h].pc = "idle"
  /\ \E tenantId \in Tenants, workspaceId \in Workspaces, title \in Titles,
        priority \in Priorities, idempotencyKey \in Keys \cup {NoKey},
        fault \in Faults, now \in Clock(Db) :
       LET id == uuidv4Task(Db)
           task == [id |-> id, tenantId |-> tenantId,
                    workspaceId |-> workspaceId, title |-> title,
                    priority |-> priority, state |-> "NEW",
                    assigneeId |-> Null]
           ran == insertColumns(Db, create(Db, task, idempotencyKey, fault),
                                task, now)
           slot == [Idle EXCEPT !.op = "create", !.taskId = id,
                                !.tenantId = tenantId,
                                !.workspaceId = workspaceId,
                                !.key = idempotencyKey,
                                !.query = [now |-> now]]
       IN  /\ WithinBounds(ran.db)
           /\ Write(ran.db)
           /\ IF ran.error = "" THEN Reply(h, slot, 201, "", ran.value)
              ELSE Reply(h, slot, 500, ran.error, NoValue)
  /\ UNCHANGED dec

\* TaskRepository.assign
FrameAssign(h) ==
  /\ handlers[h].pc = "idle"
  /\ \E taskId \in TaskIds, assigneeId \in Users, currentVersion \in Versions,
        fault \in Faults \ {"idempotencyKeys"}, now \in Clock(Db) :
       LET ran == touch(Db, assign(Db, taskId, assigneeId, currentVersion,
                                   fault), now)
           slot == [Idle EXCEPT !.op = "assign", !.taskId = taskId,
                                !.assigneeId = assigneeId,
                                !.version = currentVersion,
                                !.query = [now |-> now]]
       IN  /\ WithinBounds(ran.db)
           /\ Write(ran.db)
           /\ IF ran.error = "" THEN Reply(h, slot, 200, "", ran.value)
              ELSE Reply(h, slot, assignStatus(ran.error), ran.error, NoValue)
  /\ UNCHANGED dec

\* TaskRepository.transition
FrameTransition(h) ==
  /\ handlers[h].pc = "idle"
  /\ \E taskId \in TaskIds, toState \in TaskState, currentVersion \in Versions,
        fault \in Faults \ {"idempotencyKeys"}, now \in Clock(Db) :
       LET ran == touch(Db, transition(Db, taskId, toState, currentVersion,
                                       fault), now)
           slot == [Idle EXCEPT !.op = "transition", !.taskId = taskId,
                                !.toState = toState,
                                !.version = currentVersion,
                                !.query = [now |-> now]]
       IN  /\ WithinBounds(ran.db)
           /\ Write(ran.db)
           /\ IF ran.error = "" THEN Reply(h, slot, 200, "", ran.value)
              ELSE Reply(h, slot, transitionStatus(ran.error), ran.error,
                         NoValue)
  /\ UNCHANGED dec

\* No request is being handled
Quiet == \A g \in Handlers : handlers[g].pc = "idle"

FrameNext ==
  \E h \in Handlers :
    \/ Quiet /\ FrameCreate(h)
    \/ Quiet /\ FrameAssign(h)
    \/ Quiet /\ FrameTransition(h)
    \/ Respond(h)

SpecFrame == Init /\ [][FrameNext]_vars

\* ---------------------------------------------------------------- C24
\* Row r2 is row r with the columns a request may not change untouched
SameTask(r, r2) ==
  /\ r2.id = r.id
  /\ r2.tenantId = r.tenantId
  /\ r2.workspaceId = r.workspaceId
  /\ r2.title = r.title
  /\ r2.priority = r.priority
  /\ r2.createdAt = r.createdAt

C24_Step ==
  /\ \A r \in tasks : \E r2 \in tasks' : SameTask(r, r2)
  /\ \A h \in Handlers :
       /\ (Answers(h) /\ ~AnswersOk(h)) => tasks' = tasks
       /\ AnswersCached(h) => tasks' = tasks
       /\ (AnswersOk(h) /\ handlers'[h].op \in Mutations) =>
            \A r2 \in RowsOf(tasks', handlers'[h].taskId) :
              r2.updatedAt = handlers'[h].query.now

\* C24: every step - a create, also a repeated one, an assign or a
\* transition, accepted or rejected - leaves every task row with its id,
\* tenant, workspace, title, priority and created_at; a rejected request and
\* a repeated create leave the rows as they are; and an accepted assign or
\* transition sets updated_at to the second of its clock.
C24_CreationColumnsKept == [][C24_Step]_vars

\* A task created in one second has been assigned, and then moved to another
\* state in a later second, which its updated_at shows
C24_Witness ==
  \E h \in Handlers, r \in tasks :
    /\ Accepted(h)
    /\ handlers[h].op = "transition"
    /\ handlers[h].taskId = r.id
    /\ r.assigneeId \in Users
    /\ r.state = handlers[h].toState
    /\ r.createdAt < r.updatedAt
    /\ r.updatedAt = handlers[h].query.now
    /\ r.title \in Titles
    /\ r.priority \in Priorities

\* ---------------------------------------------------------------- C25
\* The TaskAssigned events of a log
Assignments(log) == SelectSeq(log, LAMBDA e : e.eventType = "TaskAssigned")

\* C25: for every task, its TaskStateChanged events in commit order form a
\* chain that starts from NEW, each event leaving the state the one before
\* it entered, and that ends in the stored state (NEW when there is none);
\* and its last TaskAssigned event carries the stored assignee (none when
\* there is no such event).
C25_LogReplays ==
  \A r \in tasks :
    LET changes == StateChanges(EventsOf(taskEvents, r.id))
        assigned == Assignments(EventsOf(taskEvents, r.id))
    IN  /\ changes # <<>> => changes[1].payload.from = "NEW"
        /\ \A i \in 1..Len(changes) :
             i > 1 => changes[i].payload.from = changes[i - 1].payload.to
        /\ r.state = IF changes = <<>> THEN "NEW"
                     ELSE changes[Len(changes)].payload.to
        /\ r.assigneeId = IF assigned = <<>> THEN Null
                          ELSE assigned[Len(assigned)].payload.assigneeId

\* A task has been assigned and moved NEW -> IN_PROGRESS -> DONE, and its log
\* says so
C25_Witness ==
  \E r \in tasks :
    LET changes == StateChanges(EventsOf(taskEvents, r.id))
        assigned == Assignments(EventsOf(taskEvents, r.id))
    IN  /\ r.state = "DONE"
        /\ r.assigneeId \in Users
        /\ assigned # <<>>
        /\ [i \in 1..Len(changes) |-> changes[i].payload] =
             <<[from |-> "NEW", to |-> "IN_PROGRESS"],
               [from |-> "IN_PROGRESS", to |-> "DONE"]>>

\* ------------------------------------- idempotency keys across the scopes
\* The store after one create by a client of any tenant and workspace that
\* carried any idempotency key or none
KeyInit ==
  /\ \E tenantId \in AllTenants, workspaceId \in AllWorkspaces,
        idempotencyKey \in Keys \cup {NoKey} :
       /\ tasks = {CreatedRow(tenantId, workspaceId)}
       /\ taskEvents = <<[id |-> 1, taskId |-> 1, eventType |-> "TaskCreated",
                          payload |-> CreatedRow(tenantId, workspaceId)]>>
       /\ idempotencyKeys =
            IF idempotencyKey = NoKey THEN {}
            ELSE {[key |-> idempotencyKey,
                   responsePayload |->
                     Result(CreatedRow(tenantId, workspaceId), "NEW", 1)]}
  /\ handlers = [h \in Handlers |-> Idle]
  /\ dec = NoDecision

\* Creates, and gets of what they returned, by the clients of Tenants and
\* Workspaces
KeyNext ==
  \E h \in Handlers :
    \/ Create(h)
    \/ GetStart(h)
    \/ FindById(h)
    \/ GetFound(h)
    \/ Respond(h)

SpecKeys == KeyInit /\ [][KeyNext]_vars

\* ---------------------------------------------------------------- C26
\* C26: the task whose id an accepted create returns is a task of the
\* tenant and the workspace of that request.
C26_CreateReturnsOwnTask ==
  \A h \in Handlers :
    (Accepted(h) /\ handlers[h].op = "create") =>
      \E r \in RowsOf(tasks, handlers[h].body.task_id) :
        /\ r.tenantId = handlers[h].tenantId
        /\ r.workspaceId = handlers[h].workspaceId

\* ---------------------------------------------------------------- C27
\* C27: the task and the timeline a get returns are of one committed state
\* of the store: the timeline holds exactly as many events as the version
\* returned says (the log is shorter than the timeline's limit), so none
\* that changed the task after that version.
C27_GetIsOneState ==
  \A h \in Handlers :
    (Accepted(h) /\ handlers[h].op = "get") =>
      Len(handlers[h].body.timeline) = handlers[h].body.version

\* What get does keep: the timeline is never behind the task it comes with
C27_TimelineNotOlder ==
  \A h \in Handlers :
    (Accepted(h) /\ handlers[h].op = "get") =>
      Len(handlers[h].body.timeline) >= handlers[h].body.version

====
